---- MODULE Spec2Model ----
(***************************************************************************)
(* Model of app.py: a FastAPI application object with one GET route on "/" *)
(* and a StaticFiles mount on "/static" that is added only when            *)
(* os.path.exists("static") holds while the module body runs, plus the     *)
(* __main__ guard that starts uvicorn.                                     *)
(*                                                                         *)
(* The module body is modelled statement by statement (pc names the next   *)
(* source line).  A request is dispatched the way the application's router *)
(* does it: the route list is walked in registration order, the first full *)
(* match handles the request, otherwise the first partial match (path      *)
(* matched, method did not) answers 405, otherwise the slash redirect is   *)
(* tried and at last the default 404.                                      *)
(*                                                                         *)
(* A URL path is a record [segs, slash]: its non-empty segments and        *)
(* whether it ends with "/".  "/" is [segs |-> <<>>, slash |-> TRUE].      *)
(* The static directory is flat: it holds regular files only, and the      *)
(* bytes of a file are fixed by its name.  FastAPI's built-in              *)
(* documentation routes lie outside the modelled paths.                    *)
(***************************************************************************)
EXTENDS Integers, Sequences, FiniteSets, TLC

\* ---------------------------------------------------------------- bounds
MaxReloads == 1
MaxInFlight == 2

\* ------------------------------------------------------- program constants
Port == 8000
Host == "0.0.0.0"
GreetingHtml == "<h1>Hello GreenAI</h1>"
StaticDirectory == "static"
MountPath == <<"static">>
RootPath == [segs |-> <<>>, slash |-> TRUE]

RootMethodsWithPost == {"GET", "POST"}
\* @app.get registers the route for the GET method only: the route's
\* method set is {"GET"}, and HEAD is not added to it.
RootMethods == {"GET"}

ResponseClassDefault == "JSONResponse"
\* response_class=HTMLResponse
ResponseClass == "HTMLResponse"

htmlOff == FALSE
\* StaticFiles(..., html=True)
html == TRUE

\* ------------------------------------------------------------ input sets
Methods == {"GET", "HEAD", "POST", "PUT", "DELETE", "OPTIONS"}
FileNames == {"index.html", "a.txt", "404.html"}
EntryKinds == {"absent", "file", "dir"}

Paths ==
    { RootPath }
    \cup { [segs |-> s, slash |-> b] :
             s \in { <<"static">>, <<"static", "index.html">>,
                     <<"static", "a.txt">>, <<"static", "nope.txt">>,
                     <<"other">>, <<"staticx", "a.txt">> },
             b \in BOOLEAN }

\* Header, query and body variations of a request.
Variants ==
    { [accept |-> "*/*", query |-> "", body |-> "", ifNoneMatch |-> FALSE],
      [accept |-> "application/json", query |-> "a=1", body |-> "x",
       ifNoneMatch |-> FALSE],
      [accept |-> "text/html", query |-> "", body |-> "", ifNoneMatch |-> TRUE] }

Request(m, p, v) ==
    [method |-> m, path |-> p, accept |-> v.accept, query |-> v.query,
     body |-> v.body, ifNoneMatch |-> v.ifNoneMatch]

Requests == { Request(m, p, v) : m \in Methods, p \in Paths, v \in Variants }

PlainVariant == [accept |-> "*/*", query |-> "", body |-> "", ifNoneMatch |-> FALSE]

\* The requests used when several are in flight at once.
ConcRequests ==
    { Request(m, p, PlainVariant) :
        m \in {"GET", "HEAD", "POST"},
        p \in { RootPath,
                [segs |-> <<"static">>, slash |-> TRUE],
                [segs |-> <<"static", "a.txt">>, slash |-> FALSE],
                [segs |-> <<"other">>, slash |-> FALSE] } }

NoResponse == [status |-> 0]
NoLocation == [segs |-> <<>>, slash |-> FALSE]
NoTarget == [kind |-> "none", idx |-> 0]
NoServer == [host |-> "", port |-> 0]

VARIABLES
    name,          \* the module's __name__
    pc,            \* next statement of the module body, or its outcome
    routes,        \* app.router.routes, in registration order
    server,        \* the uvicorn server started by the __main__ block
    fsStatic,      \* kind of the filesystem entry "static" in the cwd
    fsFiles,       \* regular files inside it when it is a directory
    startupEntry,  \* kind of "static" seen by the os.path.exists call
    reloads,       \* number of importlib.reload calls so far
    response,      \* the response just sent, with its request
    inflight       \* requests accepted and not yet answered

vars == <<name, pc, routes, server, fsStatic, fsFiles, startupEntry,
          reloads, response, inflight>>

\* ------------------------------------------------------------ filesystem
\* os.path.exists: true of any entry, a regular file included.
exists(kind) == kind # "absent"

\* os.path.isdir, as used by the StaticFiles constructor (check_dir).
isdir(kind) == kind = "dir"

\* Bytes of a file of the static directory.
FileBytes(n) ==
    CASE n = "index.html" -> "<html>index</html>"
      [] n = "404.html"   -> "<html>missing</html>"
      [] OTHER            -> "alpha"

\* Media type guessed from the file name.
MediaOf(n) == IF n \in {"index.html", "404.html"} THEN "text/html" ELSE "text/plain"

\* ------------------------------------------------------------- responses
Resp(st, media, body, allow, location, handler) ==
    [status |-> st, media |-> media, body |-> body, allow |-> allow,
     location |-> location, handler |-> handler]

\* json.dumps of a string: the string in double quotes.
JsonDumps(content) ==
    IF content = GreetingHtml THEN "\"<h1>Hello GreenAI</h1>\"" ELSE "\"\""

\* A response class renders the value returned by the endpoint.
Render(cls, content) ==
    IF cls = "HTMLResponse"
    THEN [media |-> "text/html", body |-> content]
    ELSE [media |-> "application/json", body |-> JsonDumps(content)]

\* async def root(): return "<h1>Hello GreenAI</h1>"
root == GreetingHtml

\* The GET route on "/": runs root and renders it with the response class.
RootResponse ==
    LET r == Render(ResponseClass, root)
    IN  Resp(200, r.media, r.body, {}, NoLocation, "root")

NotFound(handler) == Resp(404, "application/json", "{\"detail\":\"Not Found\"}", {}, NoLocation, handler)

MethodNotAllowed(allow, handler) ==
    Resp(405, "application/json", "{\"detail\":\"Method Not Allowed\"}", allow, NoLocation, handler)

Redirect(location, handler) == Resp(307, "", "", {}, location, handler)

\* --------------------------------------------------------------- routing
\* The route object added by @app.get("/", response_class=HTMLResponse).
RootRoute == [kind |-> "route", path |-> RootPath, methods |-> RootMethods,
              endpoint |-> "root", prefix |-> <<>>]

\* The route object added by app.mount("/static", StaticFiles(...), name="static").
StaticMount == [kind |-> "mount", path |-> RootPath, methods |-> {},
                endpoint |-> "static", prefix |-> MountPath]

IsPrefix(pre, s) == Len(pre) <= Len(s) /\ SubSeq(s, 1, Len(pre)) = pre

\* A mount on /static matches /static/<anything>, and not /static itself.
MountMatches(rt, p) ==
    /\ IsPrefix(rt.prefix, p.segs)
    /\ (Len(p.segs) > Len(rt.prefix) \/ p.slash)

\* "full", "partial" (path matched, method did not) or "none".
Matches(rt, m, p) ==
    IF rt.kind = "mount"
    THEN IF MountMatches(rt, p) THEN "full" ELSE "none"
    ELSE IF p = rt.path
         THEN IF m \in rt.methods THEN "full" ELSE "partial"
         ELSE "none"

FirstIndex(rts, m, p, want) ==
    LET S == { i \in 1..Len(rts) : Matches(rts[i], m, p) = want }
    IN  IF S = {} THEN 0 ELSE CHOOSE i \in S : \A j \in S : i <= j

\* The path the slash redirect tries: the trailing slash toggled.
ToggleSlash(p) == [segs |-> p.segs, slash |-> ~p.slash]

\* The router's choice for a request: the route that handles it, the slash
\* redirect, or the default not-found handler.
RouterApp(rts, m, p) ==
    LET full    == FirstIndex(rts, m, p, "full")
        partial == FirstIndex(rts, m, p, "partial")
    IN  IF full # 0 THEN [kind |-> "full", idx |-> full]
        ELSE IF partial # 0 THEN [kind |-> "partial", idx |-> partial]
        ELSE IF p # RootPath
                /\ \E i \in 1..Len(rts) : Matches(rts[i], m, ToggleSlash(p)) # "none"
             THEN [kind |-> "redirect", idx |-> 0]
        ELSE [kind |-> "default", idx |-> 0]

\* ----------------------------------------------------------- StaticFiles
\* lookup_path: what the path below the mount names in the directory.
Lookup(rest, kind, files) ==
    IF ~isdir(kind) THEN "none"
    ELSE IF rest = <<>> THEN "dir"
    ELSE IF Len(rest) = 1 /\ rest[1] \in files THEN "file"
    ELSE "none"

\* file_response: 304 when the request's validators match, else the file;
\* a HEAD request gets the headers without the bytes.
FileResponse(n, req, st) ==
    Resp(st, MediaOf(n), IF req.method = "HEAD" THEN "" ELSE FileBytes(n), {}, NoLocation, "static")

file_response(n, req) ==
    IF req.ifNoneMatch
    THEN Resp(304, "", "", {}, NoLocation, "static")
    ELSE FileResponse(n, req, 200)

\* StaticFiles.get_response with the html flag.
StaticFilesResponse(req, rest, kind, files) ==
    IF req.method \notin {"GET", "HEAD"} THEN MethodNotAllowed({}, "static")
    ELSE IF Lookup(rest, kind, files) = "file" THEN file_response(rest[1], req)
    ELSE IF Lookup(rest, kind, files) = "dir" /\ html /\ "index.html" \in files
         THEN IF ~req.path.slash
              THEN Redirect(ToggleSlash(req.path), "static")
              ELSE file_response("index.html", req)
    ELSE IF html /\ isdir(kind) /\ "404.html" \in files
         THEN FileResponse("404.html", req, 404)
    ELSE NotFound("static")

\* route.handle for the route the router chose.
Handle(target, rts, req, kind, files) ==
    CASE target.kind = "full" /\ rts[target.idx].kind = "mount" ->
            StaticFilesResponse(req,
                SubSeq(req.path.segs, Len(rts[target.idx].prefix) + 1, Len(req.path.segs)),
                kind, files)
      [] target.kind = "full" /\ rts[target.idx].kind = "route" -> RootResponse
      [] target.kind = "partial" -> MethodNotAllowed(rts[target.idx].methods, "router")
      [] target.kind = "redirect" -> Redirect(ToggleSlash(req.path), "router")
      [] OTHER -> NotFound("router")

\* A request handled from arrival to response in one piece.
Serve(rts, req, kind, files) ==
    Handle(RouterApp(rts, req.method, req.path), rts, req, kind, files)

Answer(req, resp) ==
    [status |-> resp.status, media |-> resp.media, body |-> resp.body,
     allow |-> resp.allow, location |-> resp.location, handler |-> resp.handler,
     req |-> req]

\* ------------------------------------------------------- the module body
Running == pc \in {"imported", "serving"}

Mounted(rts) == \E i \in 1..Len(rts) : rts[i].kind = "mount"

TypeOK ==
    /\ name \in {"__main__", "app"}
    /\ pc \in {"L6", "L9", "L12", "L16", "imported", "serving", "failed"}
    /\ Len(routes) <= 2
    /\ server \in {NoServer, [host |-> Host, port |-> Port]}
    /\ fsStatic \in EntryKinds
    /\ fsFiles \subseteq FileNames
    /\ (fsStatic # "dir" => fsFiles = {})
    /\ startupEntry \in EntryKinds \cup {"unchecked"}
    /\ reloads \in 0..(MaxReloads + 1)
    /\ Cardinality(inflight) <= MaxInFlight + 1

Init ==
    /\ name \in {"__main__", "app"}
    /\ pc = "L6"
    /\ routes = <<>>
    /\ server = NoServer
    /\ fsStatic \in EntryKinds
    /\ fsFiles \in (IF fsStatic = "dir" THEN SUBSET FileNames ELSE {{}})
    /\ startupEntry = "unchecked"
    /\ reloads = 0
    /\ response = NoResponse
    /\ inflight = {}

\* line 6: app = FastAPI()
CreateApp ==
    /\ pc = "L6"
    /\ routes' = <<>>
    /\ startupEntry' = "unchecked"
    /\ pc' = "L9"
    /\ response' = NoResponse
    /\ UNCHANGED <<name, server, fsStatic, fsFiles, reloads, inflight>>

\* lines 9-10: the mount is added without the existence check, on a
\* StaticFiles object that does not check its directory.
MountStaticAlways ==
    /\ pc = "L9"
    /\ startupEntry' = fsStatic
    /\ routes' = Append(routes, StaticMount)
    /\ pc' = "L12"
    /\ response' = NoResponse
    /\ UNCHANGED <<name, server, fsStatic, fsFiles, reloads, inflight>>

\* lines 9-10: if os.path.exists("static"): app.mount("/static", StaticFiles(...)).
\* The StaticFiles constructor raises RuntimeError when the entry is not a
\* directory, which ends the execution of the module body.
MountStatic ==
    /\ pc = "L9"
    /\ startupEntry' = fsStatic
    /\ IF exists(fsStatic)
       THEN IF isdir(fsStatic)
            THEN routes' = Append(routes, StaticMount) /\ pc' = "L12"
            ELSE routes' = routes /\ pc' = "failed"
       ELSE routes' = routes /\ pc' = "L12"
    /\ response' = NoResponse
    /\ UNCHANGED <<name, server, fsStatic, fsFiles, reloads, inflight>>

\* lines 12-14: @app.get("/", response_class=HTMLResponse)
RegisterRoot ==
    /\ pc = "L12"
    /\ routes' = Append(routes, RootRoute)
    /\ pc' = "L16"
    /\ response' = NoResponse
    /\ UNCHANGED <<name, server, fsStatic, fsFiles, startupEntry, reloads, inflight>>

\* lines 16-18 with the guard dropped: uvicorn.run on every execution.
MainGuardAlways ==
    /\ pc = "L16"
    /\ server' = [host |-> Host, port |-> Port]
    /\ pc' = "serving"
    /\ response' = NoResponse
    /\ UNCHANGED <<name, routes, fsStatic, fsFiles, startupEntry, reloads, inflight>>

\* lines 16-18: if __name__ == "__main__": uvicorn.run(app, host, port)
MainGuard ==
    /\ pc = "L16"
    /\ IF name = "__main__"
       THEN server' = [host |-> Host, port |-> Port] /\ pc' = "serving"
       ELSE server' = server /\ pc' = "imported"
    /\ response' = NoResponse
    /\ UNCHANGED <<name, routes, fsStatic, fsFiles, startupEntry, reloads, inflight>>

\* importlib.reload(mod), or a new import after a failed one: the module
\* body is executed again under the module's import name.
Reload ==
    /\ name = "app"
    /\ pc \in {"imported", "failed"}
    /\ reloads < MaxReloads
    /\ reloads' = reloads + 1
    /\ pc' = "L6"
    /\ response' = NoResponse
    /\ UNCHANGED <<name, routes, server, fsStatic, fsFiles, startupEntry, inflight>>

\* ------------------------------------------------- the environment's moves
MakeDir ==
    /\ fsStatic = "absent"
    /\ fsStatic' = "dir"
    /\ fsFiles' = {}
    /\ response' = NoResponse
    /\ UNCHANGED <<name, pc, routes, server, startupEntry, reloads, inflight>>

RemoveStatic ==
    /\ fsStatic # "absent"
    /\ fsStatic' = "absent"
    /\ fsFiles' = {}
    /\ response' = NoResponse
    /\ UNCHANGED <<name, pc, routes, server, startupEntry, reloads, inflight>>

WriteFile(n) ==
    /\ fsStatic = "dir"
    /\ n \notin fsFiles
    /\ fsFiles' = fsFiles \cup {n}
    /\ response' = NoResponse
    /\ UNCHANGED <<name, pc, routes, server, fsStatic, startupEntry, reloads, inflight>>

DeleteFile(n) ==
    /\ n \in fsFiles
    /\ fsFiles' = fsFiles \ {n}
    /\ response' = NoResponse
    /\ UNCHANGED <<name, pc, routes, server, fsStatic, startupEntry, reloads, inflight>>

\* ---------------------------------------------------------------- requests
\* A request handler that looks at the filesystem again: the mount is used
\* when "static" is a directory now.
HandleRequestRecheck(req) ==
    /\ Running
    /\ response' = Answer(req,
            Serve(IF isdir(fsStatic) THEN <<StaticMount, RootRoute>> ELSE <<RootRoute>>,
                  req, fsStatic, fsFiles))
    /\ UNCHANGED <<name, pc, routes, server, fsStatic, fsFiles, startupEntry,
                   reloads, inflight>>

\* A request handler that registers the mount lazily, on the first request
\* that finds the directory.
HandleRequestLazyMount(req) ==
    /\ Running
    /\ response' = Answer(req, Serve(routes, req, fsStatic, fsFiles))
    /\ routes' = IF isdir(fsStatic) /\ ~Mounted(routes)
                 THEN <<StaticMount>> \o routes ELSE routes
    /\ UNCHANGED <<name, pc, server, fsStatic, fsFiles, startupEntry,
                   reloads, inflight>>

\* One request, from arrival to response, against the finished application.
HandleRequest(req) ==
    /\ Running
    /\ response' = Answer(req, Serve(routes, req, fsStatic, fsFiles))
    /\ UNCHANGED <<name, pc, routes, server, fsStatic, fsFiles, startupEntry,
                   reloads, inflight>>

Next ==
    \/ CreateApp
    \/ MountStatic
    \/ RegisterRoot
    \/ MainGuard
    \/ Reload
    \/ MakeDir
    \/ RemoveStatic
    \/ \E n \in FileNames : WriteFile(n)
    \/ \E n \in FileNames : DeleteFile(n)
    \/ \E req \in Requests : HandleRequest(req)

Spec == Init /\ [][Next]_vars

\* ----------------------------------------------- requests handled in steps
\* The server accepts a request while others are still being handled.
Receive(req) ==
    /\ Running
    /\ Cardinality(inflight) < MaxInFlight
    /\ inflight' = inflight \cup {[req |-> req, stage |-> "received", target |-> NoTarget]}
    /\ response' = NoResponse
    /\ UNCHANGED <<name, pc, routes, server, fsStatic, fsFiles, startupEntry, reloads>>

\* The router picks the route of one accepted request.
RouteStep(it) ==
    /\ it \in inflight
    /\ it.stage = "received"
    /\ inflight' = (inflight \ {it}) \cup
            {[req |-> it.req, stage |-> "routed",
              target |-> RouterApp(routes, it.req.method, it.req.path)]}
    /\ response' = NoResponse
    /\ UNCHANGED <<name, pc, routes, server, fsStatic, fsFiles, startupEntry, reloads>>

\* A handler that reads the request from a slot shared by all the requests
\* in flight, instead of from its own scope.
RespondShared(it) ==
    /\ it \in inflight
    /\ it.stage = "routed"
    /\ inflight' = inflight \ {it}
    /\ LET cur == CHOOSE j \in inflight : j.stage = "routed"
       IN  response' = Answer(it.req, Handle(cur.target, routes, cur.req, fsStatic, fsFiles))
    /\ UNCHANGED <<name, pc, routes, server, fsStatic, fsFiles, startupEntry, reloads>>

\* The chosen route handles the request and the response is sent; the
\* static handler looks the file up now.
Respond(it) ==
    /\ it \in inflight
    /\ it.stage = "routed"
    /\ inflight' = inflight \ {it}
    /\ response' = Answer(it.req, Handle(it.target, routes, it.req, fsStatic, fsFiles))
    /\ UNCHANGED <<name, pc, routes, server, fsStatic, fsFiles, startupEntry, reloads>>

NextConc ==
    \/ CreateApp
    \/ MountStatic
    \/ RegisterRoot
    \/ MainGuard
    \/ MakeDir
    \/ RemoveStatic
    \/ \E n \in FileNames : WriteFile(n)
    \/ \E n \in FileNames : DeleteFile(n)
    \/ \E req \in ConcRequests : Receive(req)
    \/ \E it \in inflight : RouteStep(it)
    \/ \E it \in inflight : Respond(it)

SpecConc == Init /\ [][NextConc]_vars

\* ------------------------------------------------------------ properties
Answered == response.status # 0

\* The path lies under /static/ (the bare /static does not).
UnderStatic(p) ==
    /\ Len(p.segs) >= 1
    /\ p.segs[1] = "static"
    /\ (Len(p.segs) >= 2 \/ p.slash)

\* The file a path under /static/ asks for: the directory index for
\* /static/ itself.
RequestedName(p) == IF Len(p.segs) >= 2 THEN p.segs[2] ELSE "index.html"

RequestedFileExists(p) ==
    /\ fsStatic = "dir"
    /\ Len(p.segs) <= 2
    /\ RequestedName(p) \in fsFiles

\* C1: every GET on "/" answers 200 with exactly the greeting and a
\* text/html content type, whatever the Accept header, the query or the
\* body, and whether or not the static mount was registered.
C1_RootGet ==
    (Answered /\ response.req.method = "GET" /\ response.req.path = RootPath)
        => /\ response.status = 200
           /\ response.body = GreetingHtml
           /\ response.media = "text/html"

C1_Witness ==
    /\ Answered
    /\ response.req.method = "GET"
    /\ response.req.path = RootPath
    /\ response.req.accept = "application/json"
    /\ response.req.query = "a=1"
    /\ Mounted(routes)
    /\ response.status = 200

\* C2: a HEAD on "/" answers 200 with an empty body and the text/html
\* content type of the GET response.
C2_HeadRoot ==
    (Answered /\ response.req.method = "HEAD" /\ response.req.path = RootPath)
        => /\ response.status = 200
           /\ response.body = ""
           /\ response.media = "text/html"

\* C3: a method other than GET and HEAD on "/" never answers 200; it
\* answers 405 or 404, and a 405 carries an Allow header naming GET or HEAD.
C3_OtherMethods ==
    (Answered /\ response.req.method \notin {"GET", "HEAD"} /\ response.req.path = RootPath)
        => /\ response.status # 200
           /\ response.status \in {404, 405}
           /\ (response.status = 405 => response.allow \cap {"GET", "HEAD"} # {})

C3_Witness ==
    /\ Answered
    /\ response.req.method = "POST"
    /\ response.req.path = RootPath
    /\ response.status = 405
    /\ "GET" \in response.allow

\* C4: when no "static" entry existed at startup, no static route is
\* registered, every request under /static/ answers 404 for as long as the
\* application runs, and GET "/" still answers 200.
C4_NoStatic ==
    (Running /\ startupEntry = "absent")
        => /\ ~Mounted(routes)
           /\ (Answered /\ UnderStatic(response.req.path) => response.status = 404)
           /\ (Answered /\ response.req.method = "GET" /\ response.req.path = RootPath
                 => response.status = 200)

C4_Witness ==
    /\ Running
    /\ startupEntry = "absent"
    /\ fsStatic = "dir"
    /\ "a.txt" \in fsFiles
    /\ Answered
    /\ response.req.method = "GET"
    /\ response.req.path = [segs |-> <<"static", "a.txt">>, slash |-> FALSE]
    /\ response.status = 404

C6_StartupOnly ==
    Running
        => /\ (Mounted(routes) <=> exists(startupEntry))
           /\ (Answered /\ UnderStatic(response.req.path)
                 => (response.handler = "static" <=> exists(startupEntry)))

C6_Witness ==
    /\ Running
    /\ startupEntry = "dir"
    /\ fsStatic = "absent"
    /\ Answered
    /\ UnderStatic(response.req.path)
    /\ response.handler = "static"

\* C7: once the existence check has run, the application starts, and the
\* static route is registered exactly when the entry was a directory; an
\* absent entry and a regular file both give a started application
\* without the static route.
C7_DirIff ==
    pc \in {"L12", "L16", "imported", "serving", "failed"}
        => /\ pc # "failed"
           /\ (Mounted(routes) <=> startupEntry = "dir")

\* C8: the server is started only by an execution as the main program, on
\* all interfaces and port 8000; an import or a reload builds the
\* application and its routes and starts no server.
C8_MainOnly ==
    /\ (server # NoServer => name = "__main__" /\ server = [host |-> Host, port |-> Port])
    /\ (name = "app" => server = NoServer)
    /\ (pc = "serving" <=> server # NoServer)

C8_Witness ==
    /\ name = "app"
    /\ reloads >= 1
    /\ pc = "imported"
    /\ Len(routes) >= 1
    /\ server = NoServer

\* C9: a step that answers a request leaves the registered routes and the
\* outcome of the startup check as they were.
C9_Frame == [][response'.status # 0 => UNCHANGED <<routes, startupEntry, pc, server>>]_vars

C9_Witness ==
    /\ Answered
    /\ response.status = 405
    /\ fsStatic = "dir"
    /\ routes = <<RootRoute>>

====
